---- MODULE Spec2Model ----
(***************************************************************************)
(* Model of src/request.rs of tokio-smtp: the typed SMTP request values,   *)
(* their Display implementations (the wire format), Mailbox parsing and    *)
(* the conversion of a Request into a tokio-proto pipeline Frame.          *)
(*                                                                         *)
(* Text is a sequence of bytes (0..255), the UTF-8 bytes of a Rust String. *)
(* Option<T> is a sequence of length 0 (None) or 1 (Some).                 *)
(* A Formatter is the byte sequence written so far; every fmt operator     *)
(* below denotes the bytes its Display::fmt writes.                        *)
(***************************************************************************)
EXTENDS Integers, Sequences, FiniteSets, TLC

\* ---------------------------------------------------------------- bounds
\* Longest parameter list of a Mail or Rcpt request.
MaxParams == 2
\* Longest text handed to Mailbox::from_str.
MaxStr == 4

\* ------------------------------------------------------- Option and text
None == <<>>
Some(x) == <<x>>
IsSome(o) == Len(o) = 1
Unwrap(o) == o[1]

\* Bytes that the format strings of request.rs write.
SP == 32
CR == 13
LF == 10
CRLF == <<CR, LF>>

\* format_args!("{}", n) for an unsigned integer: decimal, no padding.
RECURSIVE Decimal(_)
Decimal(n) == IF n < 10 THEN <<48 + n>> ELSE Decimal(n \div 10) \o <<48 + (n % 10)>>

\* writeln!(f, fmt, ..) writes the formatted text and then a single "\n".
WritelnCRLF(text) == text \o <<CR, LF>>
Writeln(text) == text \o <<LF>>

\* ------------------------------------------------------------- util::XText
UpperHexDigit(d) == IF d < 10 THEN 48 + d ELSE 65 + (d - 10)

\* One byte of an xtext value: printable and neither '+' nor '=' is copied,
\* anything else is "+" and two uppercase hex digits.
XTextByte(b) ==
    IF b >= 33 /\ b <= 126 /\ b # 43 /\ b # 61
    THEN <<b>>
    ELSE <<43, UpperHexDigit(b \div 16), UpperHexDigit(b % 16)>>

RECURSIVE XTextFmt(_)
XTextFmt(s) == IF s = <<>> THEN <<>> ELSE XTextByte(Head(s)) \o XTextFmt(Tail(s))

\* ----------------------------------------------------------------- ClientId
\* enum ClientId { Domain(String), Ipv4(Ipv4Addr), Ipv6(Ipv6Addr), Other { tag, value } }
ClientIdDomain(d) == [kind |-> "Domain", domain |-> d]
ClientIdIpv4(a) == [kind |-> "Ipv4", addr |-> a]
ClientIdIpv6(a) == [kind |-> "Ipv6", addr |-> a]
ClientIdOther(t, v) == [kind |-> "Other", tag |-> t, value |-> v]

\* Display of std::net::Ipv4Addr: the four octets in decimal, joined by '.'.
Ipv4Fmt(a) ==
    Decimal(a[1]) \o <<46>> \o Decimal(a[2]) \o <<46>> \o Decimal(a[3]) \o <<46>> \o Decimal(a[4])

LowerHexDigit(d) == IF d < 10 THEN 48 + d ELSE 97 + (d - 10)

RECURSIVE LowerHex(_)
LowerHex(n) == IF n < 16 THEN <<LowerHexDigit(n)>> ELSE LowerHex(n \div 16) \o <<LowerHexDigit(n % 16)>>

\* Groups i..j of an Ipv6Addr in hex, joined by ':' (empty when i > j).
RECURSIVE Ipv6Groups(_, _, _)
Ipv6Groups(a, i, j) ==
    IF i > j THEN <<>>
    ELSE IF i = j THEN LowerHex(a[i])
    ELSE LowerHex(a[i]) \o <<58>> \o Ipv6Groups(a, i + 1, j)

\* Length of the run of zero groups of a that starts at group i.
RECURSIVE ZeroRun(_, _)
ZeroRun(a, i) == IF i > 8 \/ a[i] # 0 THEN 0 ELSE 1 + ZeroRun(a, i + 1)

\* Display of std::net::Ipv6Addr: the first longest run of two or more zero
\* groups is written as "::".
Ipv6Fmt(a) ==
    LET longest == CHOOSE n \in 0..8 :
                      /\ \E i \in 1..8 : ZeroRun(a, i) = n
                      /\ \A i \in 1..8 : ZeroRun(a, i) <= n
        start == CHOOSE i \in 1..8 :
                      /\ ZeroRun(a, i) = longest
                      /\ \A k \in 1..(i - 1) : ZeroRun(a, k) < longest
    IN  IF longest > 1
        THEN Ipv6Groups(a, 1, start - 1) \o <<58, 58>> \o Ipv6Groups(a, start + longest, 8)
        ELSE Ipv6Groups(a, 1, 8)

\* impl Display for ClientId
ClientIdFmt(id) ==
    CASE id.kind = "Domain" -> id.domain
      [] id.kind = "Ipv4" -> Ipv4Fmt(id.addr)
      [] id.kind = "Ipv6" -> <<73,80,118,54,58>> \o Ipv6Fmt(id.addr)
      [] id.kind = "Other" -> id.tag \o <<58>> \o id.value

\* ------------------------------------------------------------------ Mailbox
\* Result<T, E>
Ok(v) == [kind |-> "Ok", val |-> v]
Err(e) == [kind |-> "Err", err |-> e]

\* emailaddress::EmailAddress::new: the text must be printable ASCII with
\* exactly one '@' that has a local part before it and a domain after it;
\* the address keeps the two parts, the error says what was wrong.
AtPositions(s) == {i \in 1..Len(s) : s[i] = 64}

EmailAddressNew(s) ==
    IF \E i \in 1..Len(s) : s[i] < 33 \/ s[i] > 126
    THEN Err([msg |-> "invalid character"])
    ELSE IF Cardinality(AtPositions(s)) # 1
    THEN Err([msg |-> "expected exactly one @"])
    ELSE LET at == CHOOSE i \in AtPositions(s) : TRUE
         IN  IF at = 1 THEN Err([msg |-> "empty local part"])
             ELSE IF at = Len(s) THEN Err([msg |-> "empty domain"])
             ELSE Ok([local |-> SubSeq(s, 1, at - 1), domain |-> SubSeq(s, at + 1, Len(s))])

\* Display of emailaddress::EmailAddress: local@domain.
EmailAddressFmt(a) == a.local \o <<64>> \o a.domain

\* struct Mailbox(pub Option<EmailAddress>): m[1] is the field self.0.
Mailbox(o) == <<o>>

\* impl From<EmailAddress> for Mailbox
MailboxFrom(addr) == Mailbox(Some(addr))

\* impl FromStr for Mailbox
MailboxFromStrSwallow(s) ==
    IF s = <<>>
    THEN Ok(Mailbox(None))
    ELSE LET r == EmailAddressNew(s)
         IN  IF r.kind = "Err" THEN Ok(Mailbox(None)) ELSE Ok(MailboxFrom(r.val))
MailboxFromStr(s) ==
    IF s = <<>>
    THEN Ok(Mailbox(None))
    ELSE LET r == EmailAddressNew(s)
         IN  IF r.kind = "Err" THEN Err(r.err) ELSE Ok(MailboxFrom(r.val))

\* impl Display for Mailbox
MailboxFmt(m) ==
    IF IsSome(m[1])
    THEN <<60>> \o EmailAddressFmt(Unwrap(m[1])) \o <<62>>
    ELSE <<60, 62>>

\* ----------------------------------------------------------------- MailParam
\* enum MailBodyParam { SevenBit, EightBitMime }
SevenBit == "SevenBit"
EightBitMime == "EightBitMime"

\* impl Display for MailBodyParam
MailBodyParamFmt(b) ==
    CASE b = SevenBit -> <<55,66,73,84>>
      [] b = EightBitMime -> <<56,66,73,84,77,73,77,69>>

\* enum MailParam { Body(MailBodyParam), Size(usize), Other { keyword, value } }
MailParamBody(b) == [kind |-> "Body", body |-> b]
MailParamSize(n) == [kind |-> "Size", size |-> n]
MailParamOther(k, v) == [kind |-> "Other", keyword |-> k, value |-> v]

\* impl Display for MailParam
MailParamFmtRaw(p) ==
    CASE p.kind = "Body" -> <<66,79,68,89,61>> \o MailBodyParamFmt(p.body)
      [] p.kind = "Size" -> <<83,73,90,69,61>> \o Decimal(p.size)
      [] p.kind = "Other" /\ IsSome(p.value) -> p.keyword \o <<61>> \o Unwrap(p.value)
      [] p.kind = "Other" /\ ~IsSome(p.value) -> p.keyword
MailParamFmtFlagEq(p) ==
    CASE p.kind = "Body" -> <<66,79,68,89,61>> \o MailBodyParamFmt(p.body)
      [] p.kind = "Size" -> <<83,73,90,69,61>> \o Decimal(p.size)
      [] p.kind = "Other" /\ IsSome(p.value) -> p.keyword \o <<61>> \o XTextFmt(Unwrap(p.value))
      [] p.kind = "Other" /\ ~IsSome(p.value) -> p.keyword \o <<61>>
MailParamFmt(p) ==
    CASE p.kind = "Body" -> <<66,79,68,89,61>> \o MailBodyParamFmt(p.body)
      [] p.kind = "Size" -> <<83,73,90,69,61>> \o Decimal(p.size)
      [] p.kind = "Other" /\ IsSome(p.value) -> p.keyword \o <<61>> \o XTextFmt(Unwrap(p.value))
      [] p.kind = "Other" /\ ~IsSome(p.value) -> p.keyword

\* enum RcptParam { Other { keyword, value } }
RcptParamOther(k, v) == [kind |-> "Other", keyword |-> k, value |-> v]

\* impl Display for RcptParam
RcptParamFmtRaw(p) ==
    CASE p.kind = "Other" /\ IsSome(p.value) -> p.keyword \o <<61>> \o Unwrap(p.value)
      [] p.kind = "Other" /\ ~IsSome(p.value) -> p.keyword
RcptParamFmt(p) ==
    CASE p.kind = "Other" /\ IsSome(p.value) -> p.keyword \o <<61>> \o XTextFmt(Unwrap(p.value))
      [] p.kind = "Other" /\ ~IsSome(p.value) -> p.keyword

\* ------------------------------------------------------------------- Request
\* enum Request { Ehlo, StartTls, Auth, Mail, Rcpt, Data, Quit }
Ehlo(id) == [kind |-> "Ehlo", id |-> id]
StartTls == [kind |-> "StartTls"]
Auth(m, d) == [kind |-> "Auth", method |-> m, data |-> d]
Mail(f, ps) == [kind |-> "Mail", from |-> f, params |-> ps]
Rcpt(t, ps) == [kind |-> "Rcpt", to |-> t, params |-> ps]
Data == [kind |-> "Data"]
Quit == [kind |-> "Quit"]

\* The outcome of a fmt call: the bytes written, and whether it panicked.
Written(buf) == [panic |-> FALSE, buf |-> buf]
Panicked(buf) == [panic |-> TRUE, buf |-> buf]

\* Request::fmt, the Ehlo arm
EhloFmt(id) == Written(Writeln(<<69,72,76,79,32>> \o ClientIdFmt(id) \o <<CR>>))

\* Request::fmt, the Auth arm; the match runs before anything is written.
AuthFmtSilent(method, data) ==
    CASE IsSome(method) /\ IsSome(data) ->
            Written(Writeln(<<65,85,84,72,32>> \o Unwrap(method) \o <<SP>> \o Unwrap(data) \o <<CR>>))
      [] IsSome(method) /\ ~IsSome(data) ->
            Written(Writeln(<<65,85,84,72,32>> \o Unwrap(method) \o <<CR>>))
      [] ~IsSome(method) /\ IsSome(data) ->
            Written(Writeln(Unwrap(data) \o <<CR>>))
      [] OTHER -> Written(<<>>)
AuthFmtKeyword(method, data) ==
    CASE IsSome(method) /\ IsSome(data) ->
            Written(Writeln(<<65,85,84,72,32>> \o Unwrap(method) \o <<SP>> \o Unwrap(data) \o <<CR>>))
      [] IsSome(method) /\ ~IsSome(data) ->
            Written(Writeln(<<65,85,84,72,32>> \o Unwrap(method) \o <<CR>>))
      [] ~IsSome(method) /\ IsSome(data) ->
            Written(Writeln(<<65,85,84,72,32>> \o Unwrap(data) \o <<CR>>))
      [] OTHER -> Panicked(<<>>)
AuthFmt(method, data) ==
    CASE IsSome(method) /\ IsSome(data) ->
            Written(Writeln(<<65,85,84,72,32>> \o Unwrap(method) \o <<SP>> \o Unwrap(data) \o <<CR>>))
      [] IsSome(method) /\ ~IsSome(data) ->
            Written(Writeln(<<65,85,84,72,32>> \o Unwrap(method) \o <<CR>>))
      [] ~IsSome(method) /\ IsSome(data) ->
            Written(Writeln(Unwrap(data) \o <<CR>>))
      [] OTHER -> Panicked(<<>>)

\* for param in params { write!(f, " {}", param)?; } of the Mail arm
RECURSIVE MailParamsFmtReversed(_)
MailParamsFmtReversed(ps) ==
    IF ps = <<>> THEN <<>> ELSE MailParamsFmtReversed(Tail(ps)) \o <<SP>> \o MailParamFmt(Head(ps))
RECURSIVE MailParamsFmt(_)
MailParamsFmt(ps) ==
    IF ps = <<>> THEN <<>> ELSE <<SP>> \o MailParamFmt(Head(ps)) \o MailParamsFmt(Tail(ps))

\* for param in params { write!(f, " {}", param)?; } of the Rcpt arm
RECURSIVE RcptParamsFmt(_)
RcptParamsFmt(ps) ==
    IF ps = <<>> THEN <<>> ELSE <<SP>> \o RcptParamFmt(Head(ps)) \o RcptParamsFmt(Tail(ps))

\* Request::fmt, the Mail arm
MailFmt(from, params) ==
    Written(<<77,65,73,76,32,70,82,79,77,58>> \o MailboxFmt(from) \o MailParamsFmt(params) \o CRLF)

\* Request::fmt, the Rcpt arm
RcptFmt(to, params) ==
    Written(<<82,67,80,84,32,84,79,58>> \o MailboxFmt(to) \o RcptParamsFmt(params) \o CRLF)

\* impl Display for Request
RequestFmt(r) ==
    CASE r.kind = "Ehlo" -> EhloFmt(r.id)
      [] r.kind = "StartTls" -> Written(<<83,84,65,82,84,84,76,83>> \o CRLF)
      [] r.kind = "Auth" -> AuthFmt(r.method, r.data)
      [] r.kind = "Mail" -> MailFmt(r.from, r.params)
      [] r.kind = "Rcpt" -> RcptFmt(r.to, r.params)
      [] r.kind = "Data" -> Written(<<68,65,84,65>> \o CRLF)
      [] r.kind = "Quit" -> Written(<<81,85,73,84>> \o CRLF)

\* impl From<Request> for Frame<Request, Vec<u8>, IoError>: Frame::Message
FrameFromNoFields(r) == [message |-> r, body |-> (r.kind \in {"Data", "Quit", "StartTls"})]
FrameFromNoParams(r) ==
    [message |-> IF r.kind = "Mail" THEN Mail(r.from, <<>>) ELSE r, body |-> (r = Data)]
FrameFrom(r) == [message |-> r, body |-> (r = Data)]

\* --------------------------------------------------------- bounded inputs
\* All sequences over S of length at most n.
RECURSIVE SeqsUpTo(_, _)
SeqsUpTo(S, n) ==
    IF n = 0 THEN {<<>>}
    ELSE LET shorter == SeqsUpTo(S, n - 1)
         IN  shorter \cup {Append(q, x) : q \in {t \in shorter : Len(t) = n - 1}, x \in S}

\* Extension keywords: "X-FLAG", "X-VALUE", the empty keyword and "X ".
Keywords == {<<88,45,70,76,65,71>>, <<88,45,86,65,76,85,69>>, <<>>, <<88,32>>}

\* Values of the parameters in longer lists: "+" and " =\r\n".
ListValues == {<<43>>, <<32,61,13,10>>}

\* Values of a lone parameter: every one-byte text, and UTF-8 texts that
\* hold bytes above 0x7F (a Rust String is valid UTF-8), among them the
\* lowest and highest two-byte code points, "\u{e9}", the euro sign and
\* U+10FFFF, and the texts "a+b=c" and "".
LoneValues ==
    {<<b>> : b \in 0..127}
        \cup {<<194,128>>, <<195,169>>, <<223,191>>, <<226,130,172>>, <<244,143,191,191>>}
        \cup {<<97,43,98,61,99>>, <<>>}

OptionsOf(S) == {None} \cup {Some(v) : v \in S}

ListMailParams ==
    {MailParamBody(SevenBit), MailParamBody(EightBitMime), MailParamSize(0), MailParamSize(1024)}
        \cup {MailParamOther(k, v) : k \in Keywords, v \in OptionsOf(ListValues)}

ListRcptParams == {RcptParamOther(k, v) : k \in Keywords, v \in OptionsOf(ListValues)}

\* "john@example.test" and "a@b", as EmailAddress::new returns them.
Addresses ==
    {[local |-> <<106,111,104,110>>, domain |-> <<101,120,97,109,112,108,101,46,116,101,115,116>>],
     [local |-> <<97>>, domain |-> <<98>>]}

Mailboxes == {Mailbox(None)} \cup {MailboxFrom(a) : a \in Addresses}

\* "foobar.example", "", 127.0.0.1, 10.0.0.255, ::1, 2001:db8::1,
\* fe80:0:0:1::ab, 1:2:3:4:5:6:7:8 and the custom identifier "ext:a b".
ClientIds ==
    {ClientIdDomain(<<102,111,111,98,97,114,46,101,120,97,109,112,108,101>>), ClientIdDomain(<<>>),
     ClientIdIpv4(<<127,0,0,1>>), ClientIdIpv4(<<10,0,0,255>>),
     ClientIdIpv6(<<0,0,0,0,0,0,0,1>>), ClientIdIpv6(<<8193,3512,0,0,0,0,0,1>>),
     ClientIdIpv6(<<65152,0,0,1,0,0,0,171>>), ClientIdIpv6(<<1,2,3,4,5,6,7,8>>),
     ClientIdOther(<<101,120,116>>, <<97,32,98>>)}

\* AUTH methods and data: "PLAIN", "", "dGVzdA==".
AuthTexts == {<<80,76,65,73,78>>, <<>>, <<100,71,86,122,100,65,61,61>>}

Requests ==
    {Ehlo(id) : id \in ClientIds}
        \cup {StartTls, Data, Quit}
        \cup {Auth(m, d) : m \in OptionsOf(AuthTexts), d \in OptionsOf(AuthTexts)}
        \cup {Mail(f, ps) : f \in Mailboxes, ps \in SeqsUpTo(ListMailParams, MaxParams)}
        \cup {Rcpt(t, ps) : t \in Mailboxes, ps \in SeqsUpTo(ListRcptParams, MaxParams)}
        \cup {Mail(Mailbox(None), <<MailParamOther(<<88,45,86,65,76,85,69>>, Some(v))>>) : v \in LoneValues}
        \cup {Rcpt(Mailbox(None), <<RcptParamOther(<<88,45,86,65,76,85,69>>, Some(v))>>) : v \in LoneValues}

\* Texts handed to from_str: over 'a', '@', '.' and ' ', and two addresses.
Strings ==
    SeqsUpTo({97, 64, 46, 32}, MaxStr)
        \cup {<<106,111,104,110,64,101,120,97,109,112,108,101,46,116,101,115,116>>,
              <<97,108,105,99,101,64,101,120,97,109,112,108,101,46,116,101,115,116>>}

\* ---------------------------------------------------------------- the state
VARIABLES
    request,     \* the Request value the caller holds
    result,      \* "none", or how request.to_string() ended: "ok" or "panic"
    out,         \* the bytes that request.to_string() wrote
    frame,       \* Option<Frame>: the Frame made from the request
    frameOut,    \* Option<String>: frame.message.to_string()
    string,      \* the text handed to Mailbox::from_str
    parsed,      \* Option<Result<Mailbox, AddrError>>: what from_str returned
    mailboxOut   \* Option<String>: to_string() of the parsed mailbox

vars == <<request, result, out, frame, frameOut, string, parsed, mailboxOut>>
requestVars == <<request, result, out, frame, frameOut>>
mailboxVars == <<string, parsed, mailboxOut>>

\* The caller holds a request that has not been used yet.
Init ==
    /\ request \in Requests
    /\ result = "none"
    /\ out = <<>>
    /\ frame = None
    /\ frameOut = None
    /\ string = <<>>
    /\ parsed = None
    /\ mailboxOut = None

\* request.to_string(): Display::fmt into a fresh String.
RequestToString ==
    /\ result = "none"
    /\ frame = None
    /\ LET w == RequestFmt(request)
       IN  /\ result' = IF w.panic THEN "panic" ELSE "ok"
           /\ out' = w.buf
    /\ UNCHANGED <<request, frame, frameOut, mailboxVars>>

\* Frame::from(request): the request moves into the frame.
IntoFrame ==
    /\ result # "panic"
    /\ frame = None
    /\ frame' = Some(FrameFrom(request))
    /\ UNCHANGED <<request, result, out, frameOut, mailboxVars>>

\* to_string() of the message a frame carries.
FrameMessageToString ==
    /\ result # "panic"
    /\ IsSome(frame)
    /\ frameOut = None
    /\ LET w == RequestFmt(Unwrap(frame).message)
       IN  IF w.panic
           THEN result' = "panic" /\ out' = w.buf /\ UNCHANGED frameOut
           ELSE frameOut' = Some(w.buf) /\ UNCHANGED <<result, out>>
    /\ UNCHANGED <<request, frame, mailboxVars>>

Next == RequestToString \/ IntoFrame \/ FrameMessageToString

Spec == Init /\ [][Next]_vars

\* The caller holds a text that has not been parsed yet.
InitMailbox ==
    /\ request = Quit
    /\ result = "none"
    /\ out = <<>>
    /\ frame = None
    /\ frameOut = None
    /\ string \in Strings
    /\ parsed = None
    /\ mailboxOut = None

\* string.parse::<Mailbox>()
FromStr ==
    /\ parsed = None
    /\ parsed' = Some(MailboxFromStr(string))
    /\ UNCHANGED <<requestVars, string, mailboxOut>>

\* to_string() of the mailbox that from_str returned.
MailboxToString ==
    /\ IsSome(parsed)
    /\ Unwrap(parsed).kind = "Ok"
    /\ mailboxOut = None
    /\ mailboxOut' = Some(MailboxFmt(Unwrap(parsed).val))
    /\ UNCHANGED <<requestVars, string, parsed>>

NextMailbox == FromStr \/ MailboxToString

SpecMailbox == InitMailbox /\ [][NextMailbox]_vars

\* ------------------------------------------------- reading a rendered line
IsMailOrRcpt(r) == r.kind \in {"Mail", "Rcpt"}

\* The mailbox and the rendering of the i-th parameter of a Mail or Rcpt.
BoxOf(r) == IF r.kind = "Mail" THEN r.from ELSE r.to
ParamText(r, i) == IF r.kind = "Mail" THEN MailParamFmt(r.params[i]) ELSE RcptParamFmt(r.params[i])

\* The command keyword and the mailbox that open the line.
Lead(r) ==
    (IF r.kind = "Mail" THEN <<77,65,73,76,32,70,82,79,77,58>> ELSE <<82,67,80,84,32,84,79,58>>)
        \o MailboxFmt(BoxOf(r))

\* Number of bytes of the line before the space of the i-th parameter.
RECURSIVE Offset(_, _)
Offset(r, i) == IF i = 1 THEN Len(Lead(r)) ELSE Offset(r, i - 1) + 1 + Len(ParamText(r, i - 1))

\* t stands in s right after the first pos bytes.
StartsAt(s, pos, t) == pos + Len(t) <= Len(s) /\ \A k \in 1..Len(t) : s[pos + k] = t[k]

EndsWithCRLF(s) == Len(s) >= 2 /\ s[Len(s) - 1] = 13 /\ s[Len(s)] = 10

\* The line o is the lead, then a space and the rendering of each parameter
\* of r at its place in list order, then CRLF and nothing else.
Layout(r, o) ==
    LET n == Len(r.params)
    IN  /\ StartsAt(o, 0, Lead(r))
        /\ \A i \in 1..n :
              /\ Offset(r, i) < Len(o)
              /\ o[Offset(r, i) + 1] = 32
              /\ StartsAt(o, Offset(r, i) + 1, ParamText(r, i))
        /\ Len(o) = Offset(r, n + 1) + 2
        /\ EndsWithCRLF(o)

\* The bytes of the line o of r between the mailbox and CRLF.
ParamsPart(r, o) == SubSeq(o, Len(Lead(r)) + 1, Len(o) - 2)

\* ---------------------------------------------------------------------- C1
\* C1: rendering Auth with neither method nor data never returns normally
\* and emits no byte: it panics before anything is written.
C1_AuthNoneNoneAborts ==
    request = Auth(None, None) =>
        /\ result # "ok"
        /\ out = <<>>
        /\ frameOut = None

C1_Witness == request = Auth(None, None) /\ result = "panic"

\* ---------------------------------------------------------------------- C2
StructurallyValid(r) == r.kind = "Auth" => (IsSome(r.method) \/ IsSome(r.data))

\* The parameters 1..n of r, each after one space, built from the last one.
RECURSIVE JoinedParams(_, _)
JoinedParams(r, n) == IF n = 0 THEN <<>> ELSE JoinedParams(r, n - 1) \o <<32>> \o ParamText(r, n)

\* The content of the line of a request, without its terminator.
LineContent(r) ==
    CASE r.kind = "Ehlo" -> <<69,72,76,79,32>> \o ClientIdFmt(r.id)
      [] r.kind = "StartTls" -> <<83,84,65,82,84,84,76,83>>
      [] r.kind = "Auth" ->
            IF IsSome(r.method) /\ IsSome(r.data)
            THEN <<65,85,84,72,32>> \o Unwrap(r.method) \o <<32>> \o Unwrap(r.data)
            ELSE IF IsSome(r.method) THEN <<65,85,84,72,32>> \o Unwrap(r.method)
            ELSE Unwrap(r.data)
      [] IsMailOrRcpt(r) -> Lead(r) \o JoinedParams(r, Len(r.params))
      [] r.kind = "Data" -> <<68,65,84,65>>
      [] r.kind = "Quit" -> <<81,85,73,84>>

\* C2: rendering a structurally valid request completes without error and
\* writes the content of its variant followed by exactly one CRLF; for Ehlo
\* that is "EHLO " + render(id) + "\r\n".
C2_ValidRendersOneCRLF ==
    (StructurallyValid(request) /\ result # "none") =>
        /\ result = "ok"
        /\ out = LineContent(request) \o <<13, 10>>

C2_Witness == request.kind = "Ehlo" /\ request.id.kind = "Ipv6" /\ result = "ok"

\* ---------------------------------------------------------------------- C3
\* C3 as stated: the line of a Mail or Rcpt is the lead, " " + render(p) for
\* each parameter in list order and CRLF, and no space ever stands right
\* before CRLF.
C3_NeverTrailingSpace ==
    (IsMailOrRcpt(request) /\ result = "ok") =>
        /\ Layout(request, out)
        /\ out[Len(out) - 2] # 32

\* C3, amended: the line of a Mail or Rcpt is the lead, " " + render(p) for
\* each parameter in list order and CRLF; a space stands right before CRLF
\* only when the rendering of the last parameter is empty or ends in a space.
C3_LayoutInListOrder ==
    (IsMailOrRcpt(request) /\ result = "ok") =>
        /\ Layout(request, out)
        /\ out[Len(out) - 2] = 32 =>
              /\ request.params # <<>>
              /\ LET t == ParamText(request, Len(request.params))
                 IN  t = <<>> \/ t[Len(t)] = 32

C3_Witness ==
    /\ request.kind = "Mail"
    /\ Len(request.params) = 2
    /\ request.params[1] = request.params[2]
    /\ request.params[1].kind = "Other"
    /\ result = "ok"

\* ---------------------------------------------------------------------- C4
\* C4: Auth renders in three forms: "AUTH m d" + CRLF, "AUTH m" + CRLF with
\* no trailing space, and the bare data + CRLF when there is no method.
C4_AuthThreeForms ==
    (request.kind = "Auth" /\ result = "ok") =>
        LET m == request.method
            d == request.data
        IN  /\ (IsSome(m) /\ IsSome(d)) =>
                  out = <<65,85,84,72,32>> \o m[1] \o <<32>> \o d[1] \o <<13,10>>
            /\ (IsSome(m) /\ ~IsSome(d)) =>
                  out = <<65,85,84,72,32>> \o m[1] \o <<13,10>>
            /\ (~IsSome(m) /\ IsSome(d)) =>
                  out = d[1] \o <<13,10>>
            /\ IsSome(m) \/ IsSome(d)

C4_Witness ==
    /\ request.kind = "Auth"
    /\ request.method = None
    /\ request.data = Some(<<100,71,86,122,100,65,61,61>>)
    /\ result = "ok"

\* ---------------------------------------------------------------------- C5
\* C5: the body flag of the frame made from a request is true exactly when
\* the request is Data, whatever the fields of the other variants hold.
C5_BodyIffData ==
    IsSome(frame) => (Unwrap(frame).body <=> request.kind = "Data")

C5_Witness == IsSome(frame) /\ request.kind = "Data" /\ Unwrap(frame).body

\* ---------------------------------------------------------------------- C9
\* C9: the frame made from a request carries that request unchanged, so
\* rendering the frame's message writes the bytes that rendering the request
\* wrote.
C9_FrameKeepsRequest ==
    IsSome(frame) =>
        /\ Unwrap(frame).message = request
        /\ (IsSome(frameOut) /\ result = "ok") => Unwrap(frameOut) = out

C9_Witness ==
    /\ IsSome(frame)
    /\ IsSome(frameOut)
    /\ result = "ok"
    /\ request.kind = "Mail"
    /\ request.params # <<>>

\* ---------------------------------------------------------------------- C6
\* A rendered request with exactly one parameter, an Other with a value.
LoneValued(r) ==
    /\ IsMailOrRcpt(r)
    /\ Len(r.params) = 1
    /\ r.params[1].kind = "Other"
    /\ IsSome(r.params[1].value)

\* The bytes of the line o of such a request after "keyword=", up to CRLF.
ValuePart(r, o) == SubSeq(o, Len(Lead(r)) + 1 + Len(r.params[1].keyword) + 2, Len(o) - 2)

\* The value of an uppercase hex digit, -1 for any other byte.
HexValue(c) ==
    IF c >= 48 /\ c <= 57 THEN c - 48
    ELSE IF c >= 65 /\ c <= 70 THEN c - 55
    ELSE -1

\* Bytes that xtext copies: printable, and neither '+' nor '='.
Copied(b) == b >= 33 /\ b <= 126 /\ b # 43 /\ b # 61

\* e reads as xtext: every '+' is followed by two uppercase hex digits.
RECURSIVE WellEscaped(_)
WellEscaped(e) ==
    IF e = <<>> THEN TRUE
    ELSE IF Head(e) # 43 THEN WellEscaped(Tail(e))
    ELSE /\ Len(e) >= 3
         /\ HexValue(e[2]) >= 0
         /\ HexValue(e[3]) >= 0
         /\ WellEscaped(SubSeq(e, 4, Len(e)))

\* The text that a well escaped e stands for.
RECURSIVE Unescaped(_)
Unescaped(e) ==
    IF e = <<>> THEN <<>>
    ELSE IF Head(e) # 43 THEN <<Head(e)>> \o Unescaped(Tail(e))
    ELSE <<16 * HexValue(e[2]) + HexValue(e[3])>> \o Unescaped(SubSeq(e, 4, Len(e)))

\* C6: in a rendered parameter value every byte of the value that is in
\* 0x21..0x7E and is neither '+' nor '=' stands unchanged and every other
\* byte b stands as "+" and the two uppercase hex digits of b; so "+" is
\* "+2B", "=" is "+3D", and the value part is printable 7-bit ASCII.
C6_XTextPerByte ==
    (LoneValued(request) /\ result = "ok") =>
        LET v == Unwrap(request.params[1].value)
            e == ValuePart(request, out)
        IN  /\ \A i \in 1..Len(e) : e[i] >= 33 /\ e[i] <= 126 /\ e[i] # 61
            /\ WellEscaped(e)
            /\ Unescaped(e) = v
            /\ Len(e) = Len(v) + 2 * Cardinality({i \in 1..Len(v) : ~Copied(v[i])})
            /\ v = <<43>> => e = <<43, 50, 66>>
            /\ v = <<61>> => e = <<43, 51, 68>>

C6_Witness ==
    /\ LoneValued(request)
    /\ result = "ok"
    /\ Unwrap(request.params[1].value) = <<195, 169>>
    /\ ValuePart(request, out) = <<43, 67, 51, 43, 65, 57>>

\* ---------------------------------------------------------------------- C7
\* The number that the decimal digits d spell.
RECURSIVE DigitsValue(_)
DigitsValue(d) == IF d = <<>> THEN 0 ELSE 10 * DigitsValue(SubSeq(d, 1, Len(d) - 1)) + (d[Len(d)] - 48)

\* t is the decimal form of n: digits only, no leading zero, value n.
IsDecimalOf(t, n) ==
    /\ Len(t) >= 1
    /\ \A i \in 1..Len(t) : t[i] >= 48 /\ t[i] <= 57
    /\ Len(t) > 1 => t[1] # 48
    /\ DigitsValue(t) = n

\* t is the text of the parameter p according to the rule of MailParam.
RendersAs(p, t) ==
    CASE p.kind = "Body" /\ p.body = SevenBit -> t = <<66,79,68,89,61,55,66,73,84>>
      [] p.kind = "Body" /\ p.body = EightBitMime -> t = <<66,79,68,89,61,56,66,73,84,77,73,77,69>>
      [] p.kind = "Size" ->
            /\ StartsAt(t, 0, <<83,73,90,69,61>>)
            /\ IsDecimalOf(SubSeq(t, 6, Len(t)), p.size)
      [] p.kind = "Other" /\ IsSome(p.value) ->
            t = p.keyword \o <<61>> \o XTextFmt(Unwrap(p.value))
      [] p.kind = "Other" /\ ~IsSome(p.value) -> t = p.keyword

\* C7: Other(keyword, Some(value)) renders keyword "=" encode(value), Other
\* (keyword, None) the bare keyword, Body "BODY=7BIT" or "BODY=8BITMIME",
\* Size(n) "SIZE=" and n in decimal; a RcptParam::Other renders to the text
\* of the MailParam::Other with the same keyword and value.
C7_ParamForms ==
    (IsMailOrRcpt(request) /\ Len(request.params) = 1 /\ result = "ok") =>
        LET p == request.params[1]
            t == SubSeq(out, Len(Lead(request)) + 2, Len(out) - 2)
        IN  /\ Len(out) >= Len(Lead(request)) + 3
            /\ IF request.kind = "Mail"
               THEN RendersAs(p, t)
               ELSE RendersAs(MailParamOther(p.keyword, p.value), t)

C7_Witness ==
    /\ request.kind = "Rcpt"
    /\ Len(request.params) = 1
    /\ request.params[1] = RcptParamOther(<<88,45,86,65,76,85,69>>, Some(<<43>>))
    /\ result = "ok"
    /\ out = <<82,67,80,84,32,84,79,58,60,62,32,88,45,86,65,76,85,69,61,43,50,66,13,10>>

\* --------------------------------------------------------------------- C10
\* No keyword of r holds a space, CR, LF or '='.
CleanKeywords(r) ==
    \A i \in 1..Len(r.params) :
        r.params[i].kind = "Other" =>
            \A k \in 1..Len(r.params[i].keyword) :
                r.params[i].keyword[k] \notin {32, 13, 10, 61}

\* Position i of t lies in the value part of a token: after an '=' with no
\* space in between.
InValue(t, i) == \E j \in 1..(i - 1) : t[j] = 61 /\ \A k \in j..i : t[k] # 32

\* C10: when no keyword holds a space, CR, LF or '=', the part of a rendered
\* Mail or Rcpt line after the mailbox has one space per parameter, each in
\* front of a token; no value part holds '=', CR or LF, every '+' of a value
\* part starts a "+HH" escape, and the only CRLF of the line is its end.
C10_ValuesKeepStructure ==
    (IsMailOrRcpt(request) /\ CleanKeywords(request) /\ result = "ok") =>
        LET t == ParamsPart(request, out)
            n == Len(request.params)
        IN  /\ Cardinality({i \in 1..Len(t) : t[i] = 32}) = n
            /\ n > 0 => t[1] = 32
            /\ \A i \in 1..Len(t) : t[i] \notin {13, 10}
            /\ \A i \in 1..Len(t) : InValue(t, i) => t[i] # 61
            /\ \A i \in 1..Len(t) :
                  (InValue(t, i) /\ t[i] = 43) =>
                      /\ i + 2 <= Len(t)
                      /\ HexValue(t[i + 1]) >= 0
                      /\ HexValue(t[i + 2]) >= 0
            /\ {i \in 1..(Len(out) - 1) : out[i] = 13 /\ out[i + 1] = 10} = {Len(out) - 1}

C10_Witness ==
    /\ request.kind = "Rcpt"
    /\ Len(request.params) = 2
    /\ request.params[2] = RcptParamOther(<<88,45,70,76,65,71>>, Some(<<32,61,13,10>>))
    /\ request.params[1].value = Some(<<43>>)
    /\ CleanKeywords(request)
    /\ result = "ok"

\* ---------------------------------------------------------------------- C8
\* C8: from_str of the empty text is Ok(Mailbox(None)), which renders "<>";
\* from_str of any other text is Ok(Mailbox(Some(a))) when EmailAddress::new
\* accepts it as a, rendered "<" a ">", and otherwise the error that
\* EmailAddress::new returned, never a mailbox.
C8_FromStr ==
    IsSome(parsed) =>
        LET r == Unwrap(parsed)
            c == EmailAddressNew(string)
        IN  /\ string = <<>> =>
                  /\ r.kind = "Ok"
                  /\ r.val = Mailbox(None)
                  /\ IsSome(mailboxOut) => Unwrap(mailboxOut) = <<60, 62>>
            /\ (string # <<>> /\ c.kind = "Ok") =>
                  /\ r.kind = "Ok"
                  /\ r.val = Mailbox(Some(c.val))
                  /\ IsSome(mailboxOut) =>
                        Unwrap(mailboxOut) = <<60>> \o EmailAddressFmt(c.val) \o <<62>>
            /\ (string # <<>> /\ c.kind = "Err") =>
                  /\ r.kind = "Err"
                  /\ r.err = c.err
                  /\ mailboxOut = None

C8_Witness ==
    /\ IsSome(parsed)
    /\ string = <<97, 64>>
    /\ Unwrap(parsed) = Err([msg |-> "empty domain"])

====
